---------------------------- MODULE Spec2Model ----------------------------
(***************************************************************************)
(* A model of lang-memgpt: the memory tools of lang_memgpt/graph.py        *)
(* (save_recall_memory, search_memory, fetch_core_memories,                *)
(* store_core_memory) over the vector index, and the state graph           *)
(* load_memories -> agent -> {tools, END} built from them.                 *)
(*                                                                         *)
(* Conventions.  A Python str is a sequence of tokens (Seq(Token)); the    *)
(* vector index is a function from record ids to records; a metadata dict  *)
(* is a function from its keys.  The timestamp metadata entry is written   *)
(* by the code but read by no operation and is left out of the records.    *)
(*                                                                         *)
(* Specifications.  Spec, ArgSpec, RoundTripSpec: the memory tools called  *)
(* one after another.  RaceSpec: two concurrent store_core_memory calls.   *)
(* GraphSpec: one turn of the graph; FaultSpec: a turn with failing        *)
(* services; LoadSpec: load_memories thread by thread; TruncSpec:          *)
(* load_memories on a long history; EntrySpec: direct tool calls and       *)
(* turns together; LoopSpec: the agent/tools loop up to the step limit of  *)
(* a run; AssistantSpec: concurrent callers of _get_assistant_id of        *)
(* event_server/main.py.                                                   *)
(***************************************************************************)
EXTENDS Integers, Sequences, FiniteSets, TLC

VARIABLES
    index,            \* the Pinecone namespace: record id -> record
    events,           \* number of uuid4 event ids drawn so far
    last,             \* the tool call that returned last, with its return value
    pc,               \* per concurrent caller of store_core_memory: its position
    call,             \* per concurrent caller: the locals of its store_core_memory
    node,             \* the graph node about to run ("idle" outside a turn)
    config,           \* the RunnableConfig of the turn
    messages,         \* State.messages
    core_memories,    \* State.core_memories
    recall_memories,  \* State.recall_memories
    steps,            \* number of agent steps taken in the turn
    io,               \* the backend and provider calls issued by the current
                      \* tool call (tool layer) or turn (graph), in order
    faults,           \* what the services of this run may do wrong
    futures,          \* load_memories: its position and its two futures
    server            \* event_server/main.py: _ASSISTANT_ID, _LOCK and the
                      \* callers of _get_assistant_id

vars == <<index, events, last, pc, call,
          node, config, messages, core_memories, recall_memories, steps,
          io, faults, futures, server>>

callerVars == <<pc, call>>
graphVars == <<node, config, messages, core_memories, recall_memories, steps,
               faults, futures, server>>

-----------------------------------------------------------------------------
(* Bounds of the model *)

MaxCore == 2
MaxRecall == 2
MaxSteps == 2

(* Small input sets *)

None == <<>>            \* Optional[int]: None is <<>>, the integer i is <<i>>
Some(i) == <<i>>
Users == {"u1", "u2"}
Callers == {"c1", "c2"}
QUOTE == "\""
BACKSLASH == "\\"
Texts == {<<"a">>, <<QUOTE>>}
Indexes == {None} \cup {Some(i) : i \in -1 .. MaxCore}

Min(a, b) == IF a < b THEN a ELSE b
Abs(a) == IF a < 0 THEN -a ELSE a
Last(s) == s[Len(s)]

-----------------------------------------------------------------------------
(* lang_memgpt/_constants.py *)

PAYLOAD_KEY == "content"
PATH_KEY == "path"
TYPE_KEY == "type"
PATCH_PATH(user_id) == <<"user", user_id, "core">>
INSERT_PATH(user_id, event_id) == <<"user", user_id, "recall", event_id>>

(* lang_memgpt/_settings.py *)

SETTINGS == [pinecone_namespace |-> "ns1",
             model |-> "accounts/fireworks/models/firefunction-v2"]

-----------------------------------------------------------------------------
(* json.dumps({"memories": memories}) and json.loads(payload)["memories"]   *)
(* for a list of strings: a quote or backslash inside a string is escaped   *)
(* by a backslash, strings are quoted and separated by commas.              *)

RECURSIVE json_escape(_)
json_escape(s) ==
    IF s = <<>> THEN <<>>
    ELSE (IF Head(s) \in {QUOTE, BACKSLASH} THEN <<BACKSLASH, Head(s)>>
                                             ELSE <<Head(s)>>)
         \o json_escape(Tail(s))

RECURSIVE json_items(_)
json_items(memories) ==
    IF memories = <<>> THEN <<>>
    ELSE <<QUOTE>> \o json_escape(Head(memories)) \o <<QUOTE>>
         \o (IF Len(memories) > 1 THEN <<",">> ELSE <<>>)
         \o json_items(Tail(memories))

json_dumps(memories) ==
    <<"{", QUOTE, "memories", QUOTE, ":", "[">> \o json_items(memories) \o <<"]", "}">>

\* the string that starts at toks[1] (after its opening quote): <<value, rest>>
RECURSIVE json_string(_, _)
json_string(toks, acc) ==
    IF Head(toks) = QUOTE THEN <<acc, Tail(toks)>>
    ELSE IF Head(toks) = BACKSLASH
         THEN json_string(Tail(Tail(toks)), Append(acc, toks[2]))
         ELSE json_string(Tail(toks), Append(acc, Head(toks)))

RECURSIVE json_array(_, _)
json_array(toks, acc) ==
    IF Head(toks) = "]" THEN acc
    ELSE IF Head(toks) = "," THEN json_array(Tail(toks), acc)
    ELSE LET r == json_string(Tail(toks), <<>>)
         IN json_array(r[2], Append(acc, r[1]))

json_loads(payload) ==
    [memories |-> json_array(SubSeq(payload, 7, Len(payload)), <<>>)]

-----------------------------------------------------------------------------
(* lang_memgpt/_utils.py *)

_DEFAULT_DELAY == 60

HasKey(d, k) == k \in DOMAIN d

\* ensure_configurable raises KeyError: configurable["thread_id"] or
\* configurable["user_id"] is missing
ConfigKeyError(cfg) ==
    ~HasKey(cfg.configurable, "thread_id") \/ ~HasKey(cfg.configurable, "user_id")

\* the merged configurable ensure_configurable returns when it does not raise
ensure_configurable(cfg) ==
    LET configurable == cfg.configurable
    IN [delay     |-> IF HasKey(configurable, "delay")
                      THEN configurable.delay ELSE _DEFAULT_DELAY,
        model     |-> IF HasKey(configurable, "model")
                      THEN configurable.model ELSE SETTINGS.model,
        thread_id |-> configurable.thread_id,
        user_id   |-> configurable.user_id]

\* the embedding provider, text -> vector: a fixed function of the tokens,
\* never the zero vector
TokenCode(tok) == IF tok = "a" THEN 1 ELSE IF tok = QUOTE THEN 2 ELSE 3

RECURSIVE TokenSum(_)
TokenSum(text) ==
    IF text = <<>> THEN 0
    ELSE IF Len(text) = 1 THEN TokenCode(text[1])
    ELSE LET half == Len(text) \div 2
         IN TokenSum(SubSeq(text, 1, half)) + TokenSum(SubSeq(text, half + 1, Len(text)))

embed_query(text) == 1 + TokenSum(text)

\* one call to a service outside the process: the embedding provider
\* ("embed_query", with the text embedded), the index ("fetch", "query",
\* "upsert"), the chat model ("chat_model"), the web search ("tavily");
\* ok says that the call returned, and did not raise
IO(op, arg) == [op |-> op, arg |-> arg, ok |-> TRUE]

-----------------------------------------------------------------------------
(* The vector index behind utils.get_index(): upsert, fetch, query *)

_EMPTY_VEC == 0

IndexUpsert(idx, vectors) ==
    LET ids == {vectors[i].id : i \in DOMAIN vectors}
    IN [k \in DOMAIN idx \cup ids |->
          IF k \in ids
          THEN LET i == CHOOSE j \in DOMAIN vectors :
                          vectors[j].id = k
                          /\ \A l \in DOMAIN vectors : vectors[l].id = k => l <= j
               IN vectors[i]
          ELSE idx[k]]

IndexFetch(idx, ids) ==
    [vectors |-> [k \in {i \in ids : i \in DOMAIN idx} |-> idx[k]]]

\* similarity of two vectors (larger is nearer)
Score(v, w) == 0 - Abs(v - w)

MatchesFilter(doc, filter) ==
    \A k \in DOMAIN filter :
        k \in DOMAIN doc.metadata /\ doc.metadata[k] = filter[k]

\* the orders in which the backend may return the top_k nearest of cands:
\* nearest first, ties in any order
RECURSIVE TopK(_, _, _, _)
TopK(idx, cands, vector, top_k) ==
    IF top_k <= 0 \/ cands = {} THEN {<<>>}
    ELSE LET best == {k \in cands : \A o \in cands :
                         Score(idx[k].values, vector) >= Score(idx[o].values, vector)}
         IN UNION {{<<k>> \o rest : rest \in TopK(idx, cands \ {k}, vector, top_k - 1)}
                   : k \in best}

\* index.query asks for 1 or more matches and raises otherwise
QueryRejects(top_k) == top_k < 1

\* the responses index.query may give: {"matches": [...]} with metadata
IndexQuery(idx, vector, filter, top_k) ==
    LET cands == {k \in DOMAIN idx : MatchesFilter(idx[k], filter)}
    IN {[matches |-> [i \in DOMAIN ks |-> idx[ks[i]]]]
        : ks \in TopK(idx, cands, vector, top_k)}

-----------------------------------------------------------------------------
(* lang_memgpt/graph.py: the memory tools *)

SaveRecallDocuments_KeyedByUser(configurable, memory, event_id) ==
    LET vector == embed_query(memory)
        path   == INSERT_PATH(configurable.user_id, 0)
    IN <<[id       |-> path,
          values   |-> vector,
          metadata |-> (PAYLOAD_KEY :> memory) @@ (PATH_KEY :> path)
                       @@ (TYPE_KEY :> "recall")
                       @@ ("user_id" :> configurable.user_id)]>>

SaveRecallDocuments_EmptyVec(configurable, memory, event_id) ==
    LET path == INSERT_PATH(configurable.user_id, event_id)
    IN <<[id       |-> path,
          values   |-> _EMPTY_VEC,
          metadata |-> (PAYLOAD_KEY :> memory) @@ (PATH_KEY :> path)
                       @@ (TYPE_KEY :> "recall")
                       @@ ("user_id" :> configurable.user_id)]>>

SaveRecallDocuments_TwoCopies(configurable, memory, event_id) ==
    LET vector == embed_query(memory)
        path   == INSERT_PATH(configurable.user_id, event_id)
        doc    == [id       |-> path,
                   values   |-> vector,
                   metadata |-> (PAYLOAD_KEY :> memory) @@ (PATH_KEY :> path)
                                @@ (TYPE_KEY :> "recall")
                                @@ ("user_id" :> configurable.user_id)]
    IN <<doc, [doc EXCEPT !.id = INSERT_PATH(configurable.user_id, 0 - event_id)]>>

\* the documents save_recall_memory upserts for a configurable and a fresh uuid4
SaveRecallDocuments(configurable, memory, event_id) ==
    LET vector == embed_query(memory)
        path   == INSERT_PATH(configurable.user_id, event_id)
    IN <<[id       |-> path,
          values   |-> vector,
          metadata |-> (PAYLOAD_KEY :> memory) @@ (PATH_KEY :> path)
                       @@ (TYPE_KEY :> "recall")
                       @@ ("user_id" :> configurable.user_id)]>>

\* save_recall_memory: [index |-> the index afterwards, ret |-> the return value]
save_recall_memory(idx, cfg, memory, event_id) ==
    IF ConfigKeyError(cfg)
    THEN [index |-> idx, raised |-> TRUE, ret |-> "KeyError", ids |-> <<>>,
          io |-> <<>>]
    ELSE LET configurable == ensure_configurable(cfg)
             documents == SaveRecallDocuments(configurable, memory, event_id)
         IN [index  |-> IndexUpsert(idx, documents),
             raised |-> FALSE,
             ret    |-> memory,
             ids    |-> [j \in DOMAIN documents |-> documents[j].id],
             io     |-> <<IO("embed_query", memory), IO("upsert", <<>>)>>]

SearchFilter_TypeOnly(configurable) ==
    (TYPE_KEY :> "recall")

SearchFilter(configurable) ==
    ("user_id" :> configurable.user_id) @@ (TYPE_KEY :> "recall")

\* the memories search_memory extracts from a response
SearchMemories(response) ==
    IF Len(response.matches) > 0
    THEN [i \in DOMAIN response.matches |-> response.matches[i].metadata[PAYLOAD_KEY]]
    ELSE <<>>

\* search_memory: the set of [response, raised, ret] it may end with
search_memory(idx, cfg, query, top_k) ==
    IF ConfigKeyError(cfg)
    THEN {[response |-> [matches |-> <<>>], raised |-> TRUE, ret |-> "KeyError",
           io |-> <<>>]}
    ELSE IF QueryRejects(top_k)
    THEN {[response |-> [matches |-> <<>>], raised |-> TRUE, ret |-> "ValueError",
           io |-> <<IO("embed_query", query), [IO("query", <<>>) EXCEPT !.ok = FALSE]>>]}
    ELSE LET configurable == ensure_configurable(cfg)
         IN {[response |-> r, raised |-> FALSE, ret |-> SearchMemories(r),
              io |-> <<IO("embed_query", query), IO("query", <<>>)>>]
             : r \in IndexQuery(idx, embed_query(query), SearchFilter(configurable), top_k)}

fetch_core_memories_Unguarded(idx, user_id) ==
    LET path     == PATCH_PATH(user_id)
        response == IndexFetch(idx, {path})
    IN [path     |-> path,
        memories |-> IF path \in DOMAIN response.vectors
                     THEN json_loads(response.vectors[path].metadata[PAYLOAD_KEY]).memories
                     ELSE <<<<"KeyError">>>>,
        io       |-> <<IO("fetch", <<>>)>>]

\* fetch_core_memories: [path, memories]
fetch_core_memories(idx, user_id) ==
    LET path     == PATCH_PATH(user_id)
        response == IndexFetch(idx, {path})
    IN [path     |-> path,
        memories |-> IF DOMAIN response.vectors # {}
                     THEN json_loads(response.vectors[path].metadata[PAYLOAD_KEY]).memories
                     ELSE <<>>,
        io       |-> <<IO("fetch", <<>>)>>]

ListSet_Insert(memories, i, memory) ==
    SubSeq(memories, 1, i) \o <<memory>> \o SubSeq(memories, i + 1, Len(memories))

\* memories[index] = memory
ListSet(memories, i, memory) == [memories EXCEPT ![i + 1] = memory]

ListInsert0_Append(memories, memory) == memories \o <<memory>>

\* memories.insert(0, memory)
ListInsert0(memories, memory) == <<memory>> \o memories

StoreCoreDocuments(user_id, path, memories) ==
    <<[id       |-> path,
       values   |-> _EMPTY_VEC,
       metadata |-> (PAYLOAD_KEY :> json_dumps(memories)) @@ (PATH_KEY :> path)
                    @@ (TYPE_KEY :> "recall")
                    @@ ("user_id" :> user_id)]>>

StoreCoreWrite_LaxBound(idx, user_id, path, memories, memory, i) ==
    IF i # None /\ (i[1] < 0 \/ i[1] > Len(memories))
    THEN [index |-> idx, raised |-> FALSE, ret |-> "Error: Index out of bounds.",
          io |-> <<>>]
    ELSE LET updated == IF i # None THEN ListSet(memories, i[1], memory)
                                    ELSE ListInsert0(memories, memory)
         IN [index  |-> IndexUpsert(idx, StoreCoreDocuments(user_id, path, updated)),
             raised |-> FALSE,
             ret    |-> "Memory stored.",
             io     |-> <<IO("upsert", <<>>)>>]

StoreCoreWrite_Refetch(idx, user_id, path, memories, memory, i) ==
    LET current == fetch_core_memories(idx, user_id).memories
    IN IF i # None /\ (i[1] < 0 \/ i[1] >= Len(current))
       THEN [index |-> idx, raised |-> FALSE, ret |-> "Error: Index out of bounds.",
          io |-> <<>>]
       ELSE LET updated == IF i # None THEN ListSet(current, i[1], memory)
                                       ELSE ListInsert0(current, memory)
            IN [index  |-> IndexUpsert(idx, StoreCoreDocuments(user_id, path, updated)),
                raised |-> FALSE,
                ret    |-> "Memory stored.",
                io     |-> <<IO("fetch", <<>>), IO("upsert", <<>>)>>]

\* store_core_memory after its fetch returned (path, memories)
StoreCoreWrite(idx, user_id, path, memories, memory, i) ==
    IF i # None /\ (i[1] < 0 \/ i[1] >= Len(memories))
    THEN [index |-> idx, raised |-> FALSE, ret |-> "Error: Index out of bounds.",
          io |-> <<>>]
    ELSE LET updated == IF i # None THEN ListSet(memories, i[1], memory)
                                    ELSE ListInsert0(memories, memory)
         IN [index  |-> IndexUpsert(idx, StoreCoreDocuments(user_id, path, updated)),
             raised |-> FALSE,
             ret    |-> "Memory stored.",
             io     |-> <<IO("upsert", <<>>)>>]

\* store_core_memory run without interruption
store_core_memory(idx, cfg, memory, i) ==
    IF ConfigKeyError(cfg)
    THEN [index |-> idx, raised |-> TRUE, ret |-> "KeyError", io |-> <<>>]
    ELSE LET configurable == ensure_configurable(cfg)
             f == fetch_core_memories(idx, configurable.user_id)
             w == StoreCoreWrite(idx, configurable.user_id, f.path, f.memories, memory, i)
         IN [w EXCEPT !.io = f.io \o w.io]

-----------------------------------------------------------------------------
(* The tool layer: the memory tools called one after another, by any users, *)
(* on the shared index.  Each action is one whole call; last records the    *)
(* call and what it returned, until the caller takes the result (Return).   *)

DefaultTopK == 5
TopKs == {1, DefaultTopK}
Queries == Texts

Configurables ==
    {[thread_id |-> "t1", user_id |-> u] : u \in Users} \cup {[thread_id |-> "t1"]}
Configs == {[configurable |-> c] : c \in Configurables}

ConfigUser(cfg) == IF ConfigKeyError(cfg) THEN "" ELSE cfg.configurable.user_id

EmptyIndex == [k \in {} |-> {}]
NoLast == [op |-> "", user_id |-> "", memory |-> <<>>, i |-> None, query |-> <<>>,
           top_k |-> 0, raised |-> FALSE, ret |-> <<>>, ids |-> <<>>, memories |-> <<>>]

\* uuid4(): event ids are drawn fresh, one per call
NextEventId == events + 1

SaveRecall ==
    /\ node = "idle" /\ last = NoLast
    /\ events < MaxRecall
    /\ \E cfg \in Configs, memory \in Texts :
         LET r == save_recall_memory(index, cfg, memory, NextEventId)
         IN /\ index' = r.index
            /\ events' = IF r.raised THEN events ELSE NextEventId
            /\ last' = [NoLast EXCEPT !.op = "save_recall_memory",
                                      !.user_id = ConfigUser(cfg),
                                      !.memory = memory,
                                      !.raised = r.raised,
                                      !.ret = r.ret,
                                      !.ids = r.ids]
            /\ io' = r.io
    /\ UNCHANGED <<callerVars, graphVars>>

Search ==
    /\ node = "idle" /\ last = NoLast
    /\ \E cfg \in Configs, query \in Queries, top_k \in TopKs :
         \E r \in search_memory(index, cfg, query, top_k) :
            /\ last' = [NoLast EXCEPT !.op = "search_memory",
                                      !.user_id = ConfigUser(cfg),
                                      !.query = query,
                                      !.top_k = top_k,
                                      !.raised = r.raised,
                                      !.ret = r.ret,
                                      !.ids = [j \in DOMAIN r.response.matches |->
                                                 r.response.matches[j].id]]
            /\ io' = r.io
    /\ UNCHANGED <<index, events, callerVars, graphVars>>

FetchCore ==
    /\ node = "idle" /\ last = NoLast
    /\ \E user_id \in Users :
         LET f == fetch_core_memories(index, user_id)
         IN /\ last' = [NoLast EXCEPT !.op = "fetch_core_memories",
                                      !.user_id = user_id,
                                      !.ids = <<f.path>>,
                                      !.ret = f.memories]
            /\ io' = f.io
    /\ UNCHANGED <<index, events, callerVars, graphVars>>

\* last.memories is the list store_core_memory fetched, before it changed it
StoreCore ==
    /\ node = "idle" /\ last = NoLast
    /\ \E cfg \in Configs, memory \in Texts, i \in Indexes :
         LET read == IF ConfigKeyError(cfg) THEN <<>>
                     ELSE fetch_core_memories(index, ConfigUser(cfg)).memories
             r == store_core_memory(index, cfg, memory, i)
         IN /\ i = None => Len(read) < MaxCore
            /\ index' = r.index
            /\ last' = [NoLast EXCEPT !.op = "store_core_memory",
                                      !.user_id = ConfigUser(cfg),
                                      !.memory = memory,
                                      !.i = i,
                                      !.raised = r.raised,
                                      !.ret = r.ret,
                                      !.memories = read]
            /\ io' = r.io
    /\ UNCHANGED <<events, callerVars, graphVars>>

Return ==
    /\ last # NoLast
    /\ last' = NoLast
    /\ io' = <<>>
    /\ UNCHANGED <<index, events, callerVars, graphVars>>

\* load_memories before it ran; a future that was not submitted
NoFuture == [state |-> "none", result |-> <<>>]
NoFutures == [pc |-> "idle", query |-> <<>>, core |-> NoFuture, recall |-> NoFuture,
              done |-> <<>>]

\* the event server outside the runs that are about it
Handlers == {"h1", "h2", "h3"}
NoServer == [_ASSISTANT_ID |-> None, _LOCK |-> None, searches |-> 0,
             pc |-> [h \in Handlers |-> "idle"], ret |-> [h \in Handlers |-> None]]

NoCall == [user_id |-> "", memory |-> <<>>, i |-> None, path |-> <<>>,
           memories |-> <<>>, raised |-> FALSE, ret |-> ""]

Init ==
    /\ index = EmptyIndex
    /\ events = 0
    /\ last = NoLast
    /\ pc = [c \in Callers |-> "idle"]
    /\ call = [c \in Callers |-> NoCall]
    /\ node = "idle"
    /\ config = [configurable |-> [thread_id |-> "t1"]]
    /\ messages = <<>>
    /\ core_memories = <<>>
    /\ recall_memories = <<>>
    /\ steps = 0
    /\ io = <<>>
    /\ faults = {}
    /\ futures = NoFutures
    /\ server = NoServer

Next ==
    \/ SaveRecall
    \/ Search
    \/ FetchCore
    \/ StoreCore
    \/ Return

Spec == Init /\ [][Next]_vars

-----------------------------------------------------------------------------
(* Properties of the tool layer (Spec) *)

CfgOf(user_id) == [configurable |-> [thread_id |-> "t1", user_id |-> user_id]]

\* the list a fetch_core_memories of user_id returns in the current state
CoreList(user_id) == fetch_core_memories(index, user_id).memories

StoredCore ==
    last.op = "store_core_memory" /\ ~last.raised /\ last.ret = "Memory stored."

\* C3: store_core_memory(m) without index, run with no other writer in
\* between, leaves the user's core record equal to m followed by the list L
\* that was stored: a following fetch_core_memories returns a list with head
\* m, length Len(L) + 1 and the old entries in their old order.
C3_PrependsToCore ==
    (last.op = "store_core_memory" /\ ~last.raised /\ last.i = None) =>
        LET L == last.memories
            after == fetch_core_memories(index, last.user_id)
        IN /\ last.ret = "Memory stored."
           /\ after.path = PATCH_PATH(last.user_id)
           /\ Len(after.memories) = Len(L) + 1
           /\ Head(after.memories) = last.memory
           /\ \A j \in 1 .. Len(L) : after.memories[j + 1] = L[j]
           /\ after.memories = <<last.memory>> \o L

C3_Witness ==
    /\ StoredCore /\ last.i = None
    /\ Len(last.memories) = MaxCore - 1
    /\ last.memories[1] = <<"a">>
    /\ last.memory = <<QUOTE>>
    /\ CoreList(last.user_id) = <<last.memory>> \o last.memories

InRange(i, memories) == i # None /\ 0 <= i[1] /\ i[1] < Len(memories)

\* C4: store_core_memory(m, index=i) with 0 <= i < len(L), run with no other
\* writer in between, leaves the core record equal to L with only position i
\* changed to m: same length, every other position as before.
C4_ReplacesAtIndex ==
    (last.op = "store_core_memory" /\ ~last.raised /\ InRange(last.i, last.memories)) =>
        LET L == last.memories
            after == CoreList(last.user_id)
        IN /\ last.ret = "Memory stored."
           /\ Len(after) = Len(L)
           /\ after[last.i[1] + 1] = last.memory
           /\ \A j \in 1 .. Len(L) : j # last.i[1] + 1 => after[j] = L[j]

C4_Witness ==
    /\ StoredCore /\ last.i = Some(1)
    /\ Len(last.memories) = 2
    /\ last.memory # last.memories[2]
    /\ CoreList(last.user_id) = <<last.memories[1], last.memory>>

\* C5: store_core_memory(m, index=i) with i outside [0, len(memories)), which
\* is every index for a user without a core record, upserts nothing, leaves
\* the whole index as it was, and returns the error result (it does not raise).
C5_OutOfRangeIsError ==
    [][(/\ last = NoLast
        /\ last'.op = "store_core_memory"
        /\ ~last'.raised
        /\ last'.i # None
        /\ ~InRange(last'.i, last'.memories))
       => (/\ index' = index
           /\ last'.ret = "Error: Index out of bounds.")]_vars

C5_Witness ==
    /\ last.op = "store_core_memory" /\ ~last.raised
    /\ last.i = Some(0)
    /\ last.memories = <<>>
    /\ PATCH_PATH(last.user_id) \notin DOMAIN index
    /\ last.ret = "Error: Index out of bounds."
    /\ DOMAIN index # {}

\* C6: for a user without a core record, fetch_core_memories returns
\* (key, []) where key is the id store_core_memory writes that user's record
\* to, and it leaves the index as it was.
C6_FetchMissingIsEmpty ==
    [][(/\ last = NoLast
        /\ last'.op = "fetch_core_memories"
        /\ PATCH_PATH(last'.user_id) \notin DOMAIN index)
       => (/\ index' = index
           /\ ~last'.raised
           /\ last'.ret = <<>>
           /\ Len(last'.ids) = 1
           /\ \A m \in Texts :
                 DOMAIN store_core_memory(index', CfgOf(last'.user_id), m, None).index
                   = DOMAIN index' \cup {last'.ids[1]})]_vars

C6_Witness ==
    /\ last.op = "fetch_core_memories"
    /\ PATCH_PATH(last.user_id) \notin DOMAIN index
    /\ last.ret = <<>>
    /\ last.ids = <<PATCH_PATH(last.user_id)>>
    /\ \E u \in Users : PATCH_PATH(u) \in DOMAIN index

\* C7: every text search_memory returns to a user comes from a record owned
\* by that user, whatever was saved or stored before by whom, and whatever
\* the query and top_k.
C7_SearchIsPerUser ==
    (last.op = "search_memory" /\ ~last.raised) =>
        /\ Len(last.ret) = Len(last.ids)
        /\ \A j \in DOMAIN last.ids :
              /\ last.ids[j] \in DOMAIN index
              /\ index[last.ids[j]].metadata["user_id"] = last.user_id
              /\ index[last.ids[j]].metadata[PAYLOAD_KEY] = last.ret[j]

OwnedBy(user_id) == {k \in DOMAIN index : index[k].metadata["user_id"] = user_id}

C7_Witness ==
    /\ last.op = "search_memory" /\ ~last.raised
    /\ last.user_id = "u2"
    /\ Len(last.ids) = 1
    /\ \E k \in OwnedBy("u1") : /\ index[k].values = embed_query(last.query)
                                /\ index[k].metadata[PAYLOAD_KEY] = last.query
    /\ Cardinality(OwnedBy("u1")) >= 2

IsCorePath(k) == \E u \in Users : k = PATCH_PATH(u)

\* C8: the core record carries a type tag different from that of recall
\* entries, and search_memory never returns a core record's payload.
C8_CoreDisjointFromRecall ==
    /\ \A k \in DOMAIN index : IsCorePath(k) => index[k].metadata[TYPE_KEY] # "recall"
    /\ (last.op = "search_memory" /\ ~last.raised) =>
           \A j \in DOMAIN last.ids : ~IsCorePath(last.ids[j])

\* the recall entries of user_id that hold the text memory
RecallEntries(idx, user_id, memory) ==
    {k \in DOMAIN idx : /\ ~IsCorePath(k)
                        /\ idx[k].metadata["user_id"] = user_id
                        /\ idx[k].metadata[TYPE_KEY] = "recall"
                        /\ idx[k].metadata[PAYLOAD_KEY] = memory}

\* every search of user_id that asks for at least as many results as there
\* are records returns the record k
Retrievable(idx, user_id, k) ==
    \A query \in Queries :
        \A r \in search_memory(idx, CfgOf(user_id), query, Cardinality(DOMAIN idx)) :
            \E j \in DOMAIN r.response.matches : r.response.matches[j].id = k

\* C10: each save_recall_memory creates an entry under a new key and
\* overwrites nothing, so a second save of the same text by the same user
\* leaves two entries, both returned by search_memory.
C10_SaveNotIdempotent ==
    [][(/\ last = NoLast
        /\ last'.op = "save_recall_memory"
        /\ ~last'.raised)
       => LET k == last'.ids[1]
              u == last'.user_id
              m == last'.memory
          IN /\ Len(last'.ids) = 1
             /\ k \notin DOMAIN index
             /\ DOMAIN index' = DOMAIN index \cup {k}
             /\ \A o \in DOMAIN index : index'[o] = index[o]
             /\ RecallEntries(index', u, m) = RecallEntries(index, u, m) \cup {k}
             /\ \A e \in RecallEntries(index', u, m) : Retrievable(index', u, e)]_vars

C10_Witness ==
    /\ last.op = "save_recall_memory" /\ ~last.raised
    /\ Cardinality(RecallEntries(index, last.user_id, last.memory)) = 2
    /\ \A e \in RecallEntries(index, last.user_id, last.memory) :
          Retrievable(index, last.user_id, e)
    /\ PATCH_PATH(last.user_id) \in DOMAIN index

-----------------------------------------------------------------------------
(* Concurrent callers of store_core_memory (RaceSpec).  The tool is a plain *)
(* function that the tool node runs on a worker thread; it touches the      *)
(* index twice, in fetch_core_memories and in upsert, and another call may  *)
(* run between the two.  Each caller makes one call, on an index that holds *)
(* a core record written by earlier calls.                                  *)

ListsUpTo(n) == UNION {[1 .. k -> Texts] : k \in 0 .. n}

\* the index after store_core_memory(m) for each m of memories, last first
RECURSIVE IndexAfterStores(_, _)
IndexAfterStores(user_id, memories) ==
    IF memories = <<>> THEN EmptyIndex
    ELSE store_core_memory(IndexAfterStores(user_id, Tail(memories)),
                           CfgOf(user_id), Head(memories), None).index

\* store_core_memory up to the return of its fetch_core_memories
StoreCoreFetch(c) ==
    /\ pc[c] = "idle"
    /\ \E cfg \in Configs, memory \in Texts, i \in Indexes :
         IF ConfigKeyError(cfg)
         THEN /\ call' = [call EXCEPT ![c] = [NoCall EXCEPT !.memory = memory, !.i = i,
                                                           !.raised = TRUE,
                                                           !.ret = "KeyError"]]
              /\ pc' = [pc EXCEPT ![c] = "done"]
         ELSE LET configurable == ensure_configurable(cfg)
                  f == fetch_core_memories(index, configurable.user_id)
              IN /\ call' = [call EXCEPT ![c] = [NoCall EXCEPT
                                                   !.user_id = configurable.user_id,
                                                   !.memory = memory,
                                                   !.i = i,
                                                   !.path = f.path,
                                                   !.memories = f.memories]]
                 /\ pc' = [pc EXCEPT ![c] = "fetched"]
    /\ UNCHANGED <<index, events, last, io, graphVars>>

\* store_core_memory from the index check to its return
StoreCoreUpsert(c) ==
    /\ pc[c] = "fetched"
    /\ LET l == call[c]
           r == StoreCoreWrite(index, l.user_id, l.path, l.memories, l.memory, l.i)
       IN /\ index' = r.index
          /\ call' = [call EXCEPT ![c].raised = r.raised, ![c].ret = r.ret]
    /\ pc' = [pc EXCEPT ![c] = "done"]
    /\ UNCHANGED <<events, last, io, graphVars>>

RaceInit ==
    /\ index \in {IndexAfterStores(u, L) : u \in Users, L \in ListsUpTo(MaxCore)}
    /\ events = 0
    /\ last = NoLast
    /\ pc = [c \in Callers |-> "idle"]
    /\ call = [c \in Callers |-> NoCall]
    /\ node = "idle"
    /\ config = [configurable |-> [thread_id |-> "t1"]]
    /\ messages = <<>>
    /\ core_memories = <<>>
    /\ recall_memories = <<>>
    /\ steps = 0
    /\ io = <<>>
    /\ faults = {}
    /\ futures = NoFutures
    /\ server = NoServer

RaceNext ==
    \E c \in Callers :
        \/ StoreCoreFetch(c)
        \/ StoreCoreUpsert(c)

RaceSpec == RaceInit /\ [][RaceNext]_vars

Upserted(c) == pc[c] = "done" /\ ~call[c].raised /\ call[c].ret = "Memory stored."

\* the list the call of c read, with its own memory applied
WrittenBy(c) ==
    IF call[c].i = None THEN <<call[c].memory>> \o call[c].memories
    ELSE [call[c].memories EXCEPT ![call[c].i[1] + 1] = call[c].memory]

\* C9: two concurrent store_core_memory calls for one user both complete
\* (neither raises; a call past its fetch always has its second step), and
\* the user's core record is then exactly the list one of the two wrote (the
\* list that call read with its own memory applied).
C9_LastWriterWins ==
    /\ \A c \in Callers : (pc[c] = "done" /\ call[c].user_id # "") => ~call[c].raised
    /\ \A c, d \in Callers :
          (c # d /\ Upserted(c) /\ Upserted(d) /\ call[c].user_id = call[d].user_id)
          => CoreList(call[c].user_id) \in {WrittenBy(c), WrittenBy(d)}

\* both calls read the same record and both wrote: one update is lost
C9_Witness ==
    /\ Upserted("c1") /\ Upserted("c2")
    /\ call["c1"].user_id = call["c2"].user_id
    /\ call["c1"].memories = call["c2"].memories
    /\ Len(call["c1"].memories) = 1
    /\ call["c1"].i = None /\ call["c2"].i = None
    /\ call["c1"].memory # call["c2"].memory
    /\ CoreList(call["c1"].user_id) = WrittenBy("c1")
    /\ CoreList(call["c1"].user_id) # WrittenBy("c2")

-----------------------------------------------------------------------------
(* lang_memgpt/_schemas.py and the graph of lang_memgpt/graph.py            *)
(*                                                                         *)
(* A message is a record: a HumanMessage [type, id, content], an AIMessage *)
(* [type, id, content, tool_calls], a ToolMessage [type, id, content,      *)
(* name, tool_call_id].  Only an AIMessage has the attribute tool_calls.   *)

END == "__end__"
TokenLimit == 2048

HumanMessage(content, n) == [type |-> "human", id |-> <<"in", n>>, content |-> content]
AIMessage(content, tool_calls, n) ==
    [type |-> "ai", id |-> <<"run", n>>, content |-> content, tool_calls |-> tool_calls]
ToolMessage(content, name, tool_call_id) ==
    [type |-> "tool", id |-> <<"tool", tool_call_id[2], tool_call_id[3]>>,
     content |-> content, name |-> name, tool_call_id |-> tool_call_id]

\* State: messages is merged by the add_messages reducer, the other keys are
\* overwritten
State == [messages |-> messages, core_memories |-> core_memories,
          recall_memories |-> recall_memories]

RECURSIVE add_messages_MoveToEnd(_, _)
add_messages_MoveToEnd(left, right) ==
    IF right = <<>> THEN left
    ELSE LET m == Head(right)
             kept == SelectSeq(left, LAMBDA o : o.id # m.id)
         IN add_messages_MoveToEnd(Append(kept, m), Tail(right))

\* add_messages(left, right): a message of right replaces the message of left
\* that has its id, and is appended when there is none
RECURSIVE add_messages(_, _)
add_messages(left, right) ==
    IF right = <<>> THEN left
    ELSE LET m == Head(right)
             same == {j \in DOMAIN left : left[j].id = m.id}
         IN add_messages(IF same = {} THEN Append(left, m)
                         ELSE [j \in DOMAIN left |-> IF j \in same THEN m ELSE left[j]],
                         Tail(right))

RolePrefix(m) == IF m.type = "human" THEN "Human:"
                 ELSE IF m.type = "ai" THEN "AI:" ELSE "Tool:"

\* get_buffer_string(messages): "<role>: <content>" lines
RECURSIVE get_buffer_string(_)
get_buffer_string(msgs) ==
    IF msgs = <<>> THEN <<>>
    ELSE <<RolePrefix(Head(msgs))>> \o Head(msgs).content
         \o (IF Len(msgs) > 1 THEN <<"\n">> ELSE <<>>)
         \o get_buffer_string(Tail(msgs))

\* tokenizer.decode(tokenizer.encode(convo_str)[:2048])
TruncateTokens(convo_str) == SubSeq(convo_str, 1, Min(Len(convo_str), TokenLimit))

route_tools_AnyMessage(state) ==
    IF \E j \in DOMAIN state.messages :
          "tool_calls" \in DOMAIN state.messages[j] /\ state.messages[j].tool_calls # <<>>
    THEN "tools" ELSE END

route_tools_AlwaysEnd(state) == END

\* route_tools: "AttributeError" when the last message has no tool_calls
route_tools(state) ==
    LET msg == Last(state.messages)
    IN IF "tool_calls" \notin DOMAIN msg THEN "AttributeError"
       ELSE IF msg.tool_calls # <<>> THEN "tools"
       ELSE END

\* the tool calls the reasoning provider may request in one message
ToolCall(name, args, step, j) == [name |-> name, args |-> args, id |-> <<"call", step, j>>]

ToolRequests ==
    {[name |-> "save_recall_memory", args |-> [memory |-> m]] : m \in Texts}
    \cup {[name |-> "search_memory", args |-> [query |-> q, top_k |-> DefaultTopK]]
          : q \in Queries}
    \cup {[name |-> "store_core_memory", args |-> [memory |-> m, index |-> i]]
          : m \in Texts, i \in Indexes}
    \cup {[name |-> "tavily_search_results_json", args |-> [query |-> <<"a">>]]}

ToolRequestLists ==
    {<<>>} \cup {<<t>> : t \in ToolRequests}
    \cup {<<[name |-> "save_recall_memory", args |-> [memory |-> m]],
            [name |-> "store_core_memory", args |-> [memory |-> m, index |-> None]]>>
          : m \in Texts}

\* str() of a list of strings, as the content of a ToolMessage
RECURSIVE ListContent(_)
ListContent(texts) ==
    IF texts = <<>> THEN <<>>
    ELSE <<"'">> \o Head(texts) \o <<"'">>
         \o (IF Len(texts) > 1 THEN <<",">> ELSE <<>>)
         \o ListContent(Tail(texts))

handle_tool_errors_Off == FALSE

\* ToolNode(all_tools) is built with its default handle_tool_errors: an
\* exception of a tool becomes the content of that call's ToolMessage
handle_tool_errors == TRUE

ToolError(e) == <<"Error:", e>>

\* the arguments the schema of a tool requires (the others have defaults)
RequiredArgs(name) ==
    IF name \in {"save_recall_memory", "store_core_memory"} THEN {"memory"}
    ELSE {"query"}

ArgOr(args, key, default) == IF key \in DOMAIN args THEN args[key] ELSE default

\* what the services of a run may do wrong: a backend call of a tool or of
\* load_memories fails ("backend"), the chat model asks for a tool without a
\* required argument ("tool_args"), the chat model gives its message the id
\* of an earlier assistant message ("message_id")
Faults == {"backend", "tool_args", "message_id"}

\* the ways a tool fails when a service does: one of the calls it issues
\* fails, nothing after it is issued and the index is as it was
BackendFailures(idx, ev, calls) ==
    IF "backend" \in faults
    THEN {[index |-> idx, events |-> ev, raised |-> TRUE,
           content |-> ToolError(calls[k].op),
           io |-> SubSeq(calls, 1, k - 1) \o <<[calls[k] EXCEPT !.ok = FALSE]>>]
          : k \in DOMAIN calls}
    ELSE {}

\* one tool call run by the tool node: the set of [index, events, raised,
\* content, io] it may end with; raised says that the tool raised, content is
\* then the error
RunTool(idx, ev, cfg, tc) ==
    IF ~(RequiredArgs(tc.name) \subseteq DOMAIN tc.args)
    THEN {[index |-> idx, events |-> ev, raised |-> TRUE,
           content |-> ToolError("ValidationError"), io |-> <<>>]}
    ELSE IF tc.name = "save_recall_memory"
    THEN LET r == save_recall_memory(idx, cfg, tc.args.memory, ev + 1)
         IN {[index |-> r.index, events |-> IF r.raised THEN ev ELSE ev + 1,
              raised |-> r.raised,
              content |-> IF r.raised THEN ToolError(r.ret) ELSE r.ret,
              io |-> r.io]}
            \cup BackendFailures(idx, ev, r.io)
    ELSE IF tc.name = "search_memory"
    THEN LET rs == search_memory(idx, cfg, tc.args.query,
                                 ArgOr(tc.args, "top_k", DefaultTopK))
         IN {[index |-> idx, events |-> ev, raised |-> r.raised,
              content |-> IF r.raised THEN ToolError(r.ret)
                          ELSE <<"[">> \o ListContent(r.ret) \o <<"]">>,
              io |-> r.io] : r \in rs}
            \cup UNION {BackendFailures(idx, ev, r.io) : r \in rs}
    ELSE IF tc.name = "store_core_memory"
    THEN LET r == store_core_memory(idx, cfg, tc.args.memory,
                                    ArgOr(tc.args, "index", None))
         IN {[index |-> r.index, events |-> ev, raised |-> r.raised,
              content |-> IF r.raised THEN ToolError(r.ret) ELSE <<r.ret>>,
              io |-> r.io]}
            \cup BackendFailures(idx, ev, r.io)
    ELSE LET calls == <<IO("tavily", tc.args.query)>>
         IN {[index |-> idx, events |-> ev, raised |-> FALSE,
              content |-> <<"search result">>, io |-> calls]}
            \cup BackendFailures(idx, ev, calls)

\* ToolNode(all_tools): the calls of the last message, each answered by a
\* ToolMessage with its call id, in the order requested
RECURSIVE RunTools(_, _, _, _)
RunTools(idx, ev, cfg, tool_calls) ==
    IF tool_calls = <<>>
    THEN {[index |-> idx, events |-> ev, raised |-> FALSE, messages |-> <<>>,
           io |-> <<>>]}
    ELSE LET tc == Head(tool_calls)
         IN UNION {{[index |-> rest.index, events |-> rest.events,
                     raised |-> one.raised \/ rest.raised,
                     messages |-> <<ToolMessage(one.content, tc.name, tc.id)>>
                                  \o rest.messages,
                     io |-> one.io \o rest.io]
                    : rest \in RunTools(one.index, one.events, cfg, Tail(tool_calls))}
                   : one \in RunTool(idx, ev, cfg, tc)}

load_memories_CheckAfterSearch ==
    /\ node = "load_memories"
    /\ IF ConfigKeyError(config)
       THEN /\ node' = "failed"
            /\ io' = io \o <<IO("embed_query", TruncateTokens(get_buffer_string(messages))),
                              IO("query", <<>>)>>
            /\ UNCHANGED <<core_memories, recall_memories>>
       ELSE LET configurable == ensure_configurable(config)
                convo_str == TruncateTokens(get_buffer_string(messages))
                core == fetch_core_memories(index, configurable.user_id)
            IN \E recall \in search_memory(index, config, convo_str, DefaultTopK) :
                  /\ core_memories' = core.memories
                  /\ recall_memories' = recall.ret
                  /\ io' = io \o core.io \o recall.io
                  /\ node' = "agent"
    /\ UNCHANGED <<index, events, last, callerVars, config, messages, steps,
                   faults, futures, server>>

\* the ways a future of load_memories ends: with its result, or, when one of
\* its backend calls fails, with the exception of that call
FutureOutcomes(result, calls) ==
    {[raised |-> FALSE, result |-> result, io |-> calls]}
    \cup {[raised |-> TRUE, result |-> <<>>, io |-> f.io]
          : f \in BackendFailures(index, events, calls)}

load_memories_SwallowErrors ==
    /\ node = "load_memories"
    /\ IF ConfigKeyError(config)
       THEN /\ node' = "failed"
            /\ UNCHANGED <<core_memories, recall_memories, io>>
       ELSE LET configurable == ensure_configurable(config)
                convo_str == TruncateTokens(get_buffer_string(messages))
                core == fetch_core_memories(index, configurable.user_id)
            IN \E recall \in search_memory(index, config, convo_str, DefaultTopK) :
                  \E c \in FutureOutcomes(core.memories, core.io),
                     r \in FutureOutcomes(recall.ret, recall.io) :
                     /\ core_memories' = c.result
                     /\ recall_memories' = r.result
                     /\ io' = io \o c.io \o r.io
                     /\ node' = "agent"
    /\ UNCHANGED <<index, events, last, callerVars, config, messages, steps,
                   faults, futures, server>>

\* load_memories run without interruption: the core fetch and the recall
\* search, then both slots.  Future.result() raises what its call raised, and
\* the node then raises it: the run fails and no slot is written
load_memories ==
    /\ node = "load_memories"
    /\ IF ConfigKeyError(config)
       THEN /\ node' = "failed"
            /\ UNCHANGED <<core_memories, recall_memories, io>>
       ELSE LET configurable == ensure_configurable(config)
                convo_str == TruncateTokens(get_buffer_string(messages))
                core == fetch_core_memories(index, configurable.user_id)
            IN \E recall \in search_memory(index, config, convo_str, DefaultTopK) :
                  \E c \in FutureOutcomes(core.memories, core.io),
                     r \in FutureOutcomes(recall.ret, recall.io) :
                     /\ io' = io \o c.io \o r.io
                     /\ IF c.raised \/ r.raised
                        THEN /\ node' = "failed"
                             /\ UNCHANGED <<core_memories, recall_memories>>
                        ELSE /\ core_memories' = c.result
                             /\ recall_memories' = r.result
                             /\ node' = "agent"
    /\ UNCHANGED <<index, events, last, callerVars, config, messages, steps,
                   faults, futures, server>>

AIContents == {<<>>, <<"ok">>}

\* a tool call without the argument its schema requires
InvalidRequests == {[name |-> "save_recall_memory", args |-> [text |-> <<"a">>]]}

\* the lists of tool calls the chat model may put in one message
ProviderRequestLists ==
    ToolRequestLists
    \cup (IF "tool_args" \in faults THEN {<<t>> : t \in InvalidRequests} ELSE {})

\* the ids the message of the chat model may carry: a new one, or that of an
\* assistant message of the history
ProviderIds ==
    {<<"run", steps + 1>>}
    \cup (IF "message_id" \in faults
          THEN {messages[j].id : j \in {i \in DOMAIN messages : messages[i].type = "ai"}}
          ELSE {})

\* the answers the chat model may give: the content and the tool calls of
\* its message
ProviderAnswers ==
    {[content |-> c, requests |-> r] : c \in AIContents, r \in ProviderRequestLists}

\* agent: the reasoning provider answers with one AIMessage (or fails); the
\* conditional edge route_tools then picks the next node
AgentStep(answers) ==
    /\ node = "agent"
    /\ IF ConfigKeyError(config)
       THEN /\ node' = "failed"
            /\ UNCHANGED <<messages, io>>
       ELSE /\ \/ \E answer \in answers, id \in ProviderIds :
                    LET requests == answer.requests
                        tool_calls == [j \in DOMAIN requests |->
                                         ToolCall(requests[j].name, requests[j].args,
                                                  steps + 1, j)]
                        prediction == [AIMessage(answer.content, tool_calls, steps + 1)
                                         EXCEPT !.id = id]
                        merged == add_messages(messages, <<prediction>>)
                        route == route_tools([State EXCEPT !.messages = merged])
                    IN /\ messages' = merged
                       /\ node' = IF route = "AttributeError" THEN "failed" ELSE route
                       /\ io' = Append(io, IO("chat_model", <<>>))
               \/ /\ node' = "failed"
                  /\ io' = Append(io, [IO("chat_model", <<>>) EXCEPT !.ok = FALSE])
                  /\ UNCHANGED messages
    /\ steps' = steps + 1
    /\ UNCHANGED <<index, events, last, callerVars, config, core_memories,
                   recall_memories, faults, futures,
                   server>>

\* an agent step of a turn of at most MaxSteps agent steps
agent ==
    /\ steps < MaxSteps
    /\ AgentStep(ProviderAnswers)

tools_ThenEnd ==
    /\ node = "tools"
    /\ \E out \in RunTools(index, events, config, Last(messages).tool_calls) :
          /\ index' = out.index
          /\ events' = out.events
          /\ io' = io \o out.io
          /\ messages' = add_messages(messages, out.messages)
          /\ node' = END
    /\ UNCHANGED <<last, callerVars, config, core_memories, recall_memories, steps,
                   faults, futures, server>>

tools_ReloadMemories ==
    /\ node = "tools"
    /\ \E out \in RunTools(index, events, config, Last(messages).tool_calls) :
          /\ index' = out.index
          /\ events' = out.events
          /\ io' = io \o out.io
          /\ messages' = add_messages(messages, out.messages)
          /\ core_memories' = fetch_core_memories(out.index, ConfigUser(config)).memories
          /\ node' = "agent"
    /\ UNCHANGED <<last, callerVars, config, recall_memories, steps, faults, futures,
                   server>>

\* tools: ToolNode runs the calls of the last message, then back to agent
tools ==
    /\ node = "tools"
    /\ \E out \in RunTools(index, events, config, Last(messages).tool_calls) :
          /\ index' = out.index
          /\ events' = out.events
          /\ io' = io \o out.io
          /\ IF out.raised /\ ~handle_tool_errors
             THEN /\ node' = "failed"
                  /\ UNCHANGED messages
             ELSE /\ messages' = add_messages(messages, out.messages)
                  /\ node' = "agent"
    /\ UNCHANGED <<last, callerVars, config, core_memories, recall_memories, steps,
                   faults, futures, server>>

\* on_message: the reply sent is the content of the last message of the run
bot_message == Last(messages)

\* the indexes a turn may start on: empty, or with a core record and a
\* recall entry of u1
SeededIndex ==
    save_recall_memory(IndexAfterStores("u1", <<<<"a">>>>), CfgOf("u1"), <<QUOTE>>, 1).index

InputMessages ==
    {<<HumanMessage(<<"a">>, 1)>>,
     <<HumanMessage(<<QUOTE>>, 1), AIMessage(<<"ok">>, <<>>, 0), HumanMessage(<<"a">>, 2)>>}

GraphInit ==
    /\ \E seeded \in BOOLEAN :
          /\ index = IF seeded THEN SeededIndex ELSE EmptyIndex
          /\ events = IF seeded THEN 1 ELSE 0
    /\ last = NoLast
    /\ pc = [c \in Callers |-> "idle"]
    /\ call = [c \in Callers |-> NoCall]
    /\ node = "load_memories"
    /\ config \in Configs
    /\ messages \in InputMessages
    /\ core_memories = <<>>
    /\ recall_memories = <<>>
    /\ steps = 0
    /\ io = <<>>
    /\ faults = {}
    /\ futures = NoFutures
    /\ server = NoServer

GraphNext ==
    \/ load_memories
    \/ agent
    \/ tools

GraphSpec == GraphInit /\ [][GraphNext]_vars

-----------------------------------------------------------------------------
(* The graph with services that misbehave (FaultSpec): one user's turn on   *)
(* the seeded index, in a run where backend calls of tools may fail and the *)
(* chat model may leave out a required argument, or in a run where the chat *)
(* model may reuse the id of an earlier assistant message.                  *)

FaultInit ==
    /\ index = SeededIndex
    /\ events = 1
    /\ last = NoLast
    /\ pc = [c \in Callers |-> "idle"]
    /\ call = [c \in Callers |-> NoCall]
    /\ node = "load_memories"
    /\ config \in {CfgOf("u1"), [configurable |-> [thread_id |-> "t1"]]}
    /\ messages = <<HumanMessage(<<QUOTE>>, 1), AIMessage(<<"ok">>, <<>>, 0),
                    HumanMessage(<<"a">>, 2)>>
    /\ core_memories = <<>>
    /\ recall_memories = <<>>
    /\ steps = 0
    /\ io = <<>>
    /\ faults \in {{"backend", "tool_args"}, {"message_id"}}
    /\ futures = NoFutures
    /\ server = NoServer

FaultSpec == FaultInit /\ [][GraphNext]_vars

-----------------------------------------------------------------------------
(* load_memories step by step (LoadSpec): the node submits the core fetch   *)
(* and the recall search to the executor, the two run on worker threads and *)
(* end in either order, and the node takes both results and returns.        *)

\* up to the first executor.submit: fetch_core_memories(user_id) is submitted
LoadSubmitCore ==
    /\ node = "load_memories"
    /\ futures.pc = "idle"
    /\ IF ConfigKeyError(config)
       THEN /\ node' = "failed"
            /\ UNCHANGED futures
       ELSE /\ futures' = [futures EXCEPT
                             !.pc = "submitted_core",
                             !.query = TruncateTokens(get_buffer_string(messages)),
                             !.core.state = "running"]
            /\ UNCHANGED node
    /\ UNCHANGED <<index, events, last, callerVars, config, messages, core_memories,
                   recall_memories, steps, io, faults, server>>

\* the second executor.submit: search_memory.invoke(convo_str) is submitted
LoadSubmitRecall ==
    /\ node = "load_memories"
    /\ futures.pc = "submitted_core"
    /\ futures' = [futures EXCEPT !.pc = "submitted", !.recall.state = "running"]
    /\ UNCHANGED <<index, events, last, callerVars, node, config, messages,
                   core_memories, recall_memories, steps, io, faults, server>>

\* the worker running fetch_core_memories(user_id) ends
CoreFetchDone ==
    /\ futures.core.state = "running"
    /\ LET f == fetch_core_memories(index, ensure_configurable(config).user_id)
       IN /\ futures' = [futures EXCEPT !.core = [state |-> "done", result |-> f.memories],
                                        !.done = Append(@, "core")]
          /\ io' = io \o f.io
    /\ UNCHANGED <<index, events, last, callerVars, node, config, messages,
                   core_memories, recall_memories, steps, faults, server>>

\* the worker running search_memory.invoke(convo_str) ends
RecallSearchDone ==
    /\ futures.recall.state = "running"
    /\ \E r \in search_memory(index, config, futures.query, DefaultTopK) :
          /\ futures' = [futures EXCEPT !.recall = [state |-> "done", result |-> r.ret],
                                        !.done = Append(@, "recall")]
          /\ io' = io \o r.io
    /\ UNCHANGED <<index, events, last, callerVars, node, config, messages,
                   core_memories, recall_memories, steps, faults, server>>

FutureResultReady_NoWait(f) == TRUE

\* Future.result() returns once the future is done
FutureResultReady(f) == f.state = "done"

\* _, core_memories = futures[0].result()
LoadAwaitCore ==
    /\ node = "load_memories"
    /\ futures.pc = "submitted"
    /\ FutureResultReady(futures.core)
    /\ futures' = [futures EXCEPT !.pc = "core_taken"]
    /\ UNCHANGED <<index, events, last, callerVars, node, config, messages,
                   core_memories, recall_memories, steps, io, faults, server>>

\* recall_memories = futures[1].result(), and the return of the node
LoadAwaitRecall ==
    /\ node = "load_memories"
    /\ futures.pc = "core_taken"
    /\ FutureResultReady(futures.recall)
    /\ core_memories' = futures.core.result
    /\ recall_memories' = futures.recall.result
    /\ futures' = [futures EXCEPT !.pc = "joined"]
    /\ node' = "agent"
    /\ UNCHANGED <<index, events, last, callerVars, config, messages, steps, io, faults, server>>

LoadNext ==
    \/ LoadSubmitCore
    \/ LoadSubmitRecall
    \/ CoreFetchDone
    \/ RecallSearchDone
    \/ LoadAwaitCore
    \/ LoadAwaitRecall
    \/ agent

LoadSpec == GraphInit /\ [][LoadNext]_vars

-----------------------------------------------------------------------------
(* load_memories on a long conversation (TruncSpec): the buffer of the     *)
(* history has about TokenLimit tokens, a few less or a few more.           *)

TruncSlack == 30

LongText(n) == [i \in 1 .. n |-> IF i % 2 = 1 THEN "a" ELSE QUOTE]

TruncInit ==
    /\ index = SeededIndex
    /\ events = 1
    /\ last = NoLast
    /\ pc = [c \in Callers |-> "idle"]
    /\ call = [c \in Callers |-> NoCall]
    /\ node = "load_memories"
    /\ config = CfgOf("u1")
    /\ \E n \in TokenLimit - TruncSlack .. TokenLimit + TruncSlack :
          messages = <<HumanMessage(LongText(n), 1)>>
    /\ core_memories = <<>>
    /\ recall_memories = <<>>
    /\ steps = 0
    /\ io = <<>>
    /\ faults = {}
    /\ futures = NoFutures
    /\ server = NoServer

TruncSpec == TruncInit /\ [][load_memories]_vars

-----------------------------------------------------------------------------
(* One user's recall store growing past top_k (RoundTripSpec): u1, who has  *)
(* a core record and a recall entry, saves more entries and searches with   *)
(* the default top_k; another user's entry is in the index too.             *)

MaxSaved == 7

RoundTripSave ==
    /\ node = "idle" /\ last = NoLast
    /\ events < MaxSaved
    /\ \E memory \in Texts :
         LET r == save_recall_memory(index, CfgOf("u1"), memory, NextEventId)
         IN /\ index' = r.index
            /\ events' = NextEventId
            /\ last' = [NoLast EXCEPT !.op = "save_recall_memory",
                                      !.user_id = "u1",
                                      !.memory = memory,
                                      !.raised = r.raised,
                                      !.ret = r.ret,
                                      !.ids = r.ids]
            /\ io' = r.io
    /\ UNCHANGED <<callerVars, graphVars>>

RoundTripSearch ==
    /\ node = "idle" /\ last = NoLast
    /\ \E query \in Queries :
         \E r \in search_memory(index, CfgOf("u1"), query, DefaultTopK) :
            /\ last' = [NoLast EXCEPT !.op = "search_memory",
                                      !.user_id = "u1",
                                      !.query = query,
                                      !.top_k = DefaultTopK,
                                      !.raised = r.raised,
                                      !.ret = r.ret,
                                      !.ids = [j \in DOMAIN r.response.matches |->
                                                 r.response.matches[j].id]]
            /\ io' = r.io
    /\ UNCHANGED <<index, events, callerVars, graphVars>>

RoundTripInit ==
    /\ index = save_recall_memory(SeededIndex, CfgOf("u2"), <<"a">>, 2).index
    /\ events = 2
    /\ last = NoLast
    /\ pc = [c \in Callers |-> "idle"]
    /\ call = [c \in Callers |-> NoCall]
    /\ node = "idle"
    /\ config = [configurable |-> [thread_id |-> "t1"]]
    /\ messages = <<>>
    /\ core_memories = <<>>
    /\ recall_memories = <<>>
    /\ steps = 0
    /\ io = <<>>
    /\ faults = {}
    /\ futures = NoFutures
    /\ server = NoServer

RoundTripNext ==
    \/ RoundTripSave
    \/ RoundTripSearch
    \/ Return

RoundTripSpec == RoundTripInit /\ [][RoundTripNext]_vars

\* C11: once save_recall_memory(m) by a user has succeeded (an entry of that
\* user with the text m is in the index), every search_memory(m) of that user
\* with the default top_k returns a list that contains m, taken from such an
\* entry, whatever other recall entries and core records are in the index.
C11_SavedIsFound ==
    (/\ last.op = "search_memory" /\ ~last.raised
     /\ last.top_k = DefaultTopK
     /\ RecallEntries(index, last.user_id, last.query) # {})
    => \E j \in DOMAIN last.ret :
          /\ last.ret[j] = last.query
          /\ last.ids[j] \in RecallEntries(index, last.user_id, last.query)

\* more records of the user than top_k, one of them with the text searched
C11_Witness ==
    /\ last.op = "search_memory" /\ ~last.raised
    /\ Cardinality(OwnedBy(last.user_id)) > DefaultTopK
    /\ PATCH_PATH(last.user_id) \in DOMAIN index
    /\ Len(last.ret) = DefaultTopK
    /\ Cardinality(RecallEntries(index, last.user_id, last.query)) = 1
    /\ \E j \in DOMAIN last.ret : last.ret[j] = last.query
    /\ \E k \in OwnedBy(last.user_id) :
          ~IsCorePath(k) /\ \A j \in DOMAIN last.ids : last.ids[j] # k

-----------------------------------------------------------------------------
(* Properties of the graph (GraphSpec) *)

HasToolCalls(m) == "tool_calls" \in DOMAIN m /\ Len(m.tool_calls) >= 1

\* histories and memories to put in front of a last message
AltPrefixes ==
    {<<>>,
     <<HumanMessage(<<"a">>, 7)>>,
     <<HumanMessage(<<"a">>, 7),
       AIMessage(<<>>, <<ToolCall("search_memory",
                                  [query |-> <<"a">>, top_k |-> DefaultTopK], 7, 1)>>, 7),
       ToolMessage(<<"[", "]">>, "search_memory", <<"call", 7, 1>>)>>,
     <<HumanMessage(<<"a">>, 7), AIMessage(<<"ok">>, <<>>, 7)>>}

AltMemories == {<<>>, <<<<"a">>>>, <<<<QUOTE>>, <<"a">>>>}

StatesEndingWith(m) ==
    {[messages |-> pre \o <<m>>, core_memories |-> c, recall_memories |-> r]
     : pre \in AltPrefixes, c \in AltMemories, r \in AltMemories}

C2_EndsOnPlainAssistantMessage ==
    node = END =>
        /\ bot_message.type = "ai"
        /\ bot_message.id = <<"run", steps>>
        /\ bot_message.tool_calls = <<>>
        /\ ~HasToolCalls(bot_message)
        /\ bot_message.type # "tool"

\* a turn that ended after a tool round
C2_Witness ==
    /\ node = END
    /\ steps = 2
    /\ bot_message.type = "ai" /\ bot_message.tool_calls = <<>>
    /\ messages[Len(messages) - 1].type = "tool"
    /\ HasToolCalls(messages[Len(messages) - 2])

\* the number of upserts among the calls issued, failed ones included
Upserts(calls) == Cardinality({k \in DOMAIN calls : calls[k].op = "upsert"})

WritingTools == {"save_recall_memory", "store_core_memory"}

\* the number of store_core_memory and save_recall_memory calls among calls
WritingCalls(tool_calls) ==
    Cardinality({j \in DOMAIN tool_calls : tool_calls[j].name \in WritingTools})

\* the calls of those two tools that were run in the turn, by their results
WritingResults ==
    Cardinality({j \in DOMAIN messages : /\ messages[j].type = "tool"
                                         /\ messages[j].name \in WritingTools})

\* the records that differ between two indexes
Written(before, after) ==
    {k \in DOMAIN after : k \notin DOMAIN before \/ after[k] # before[k]}

\* the messages the turn has added: they carry the ids of its steps
FromTurn(m) == m.id[2] >= 1 /\ m.id[1] \in {"run", "tool"}

\* C15: the index is written only in the tools node.  load_memories and
\* agent upsert nothing; a tools step upserts at most once per
\* store_core_memory or save_recall_memory call it runs, one record per
\* upsert; so the upserts of a turn are at most the calls of these two tools
\* it ran.  A turn whose first answer asks for no tool has upserted nothing
\* and is at END with that one assistant message added to its input.
C15_WritesOnlyInTools ==
    /\ [](node # "idle" => Upserts(io) <= WritingResults)
    /\ []((node # "idle" /\ steps >= 1 /\ node # "failed"
           /\ \A j \in DOMAIN messages : FromTurn(messages[j]) => ~HasToolCalls(messages[j]))
          => (/\ node = END
              /\ steps = 1
              /\ Upserts(io) = 0
              /\ index \in {EmptyIndex, SeededIndex}
              /\ SubSeq(messages, 1, Len(messages) - 1) \in InputMessages
              /\ Last(messages).type = "ai"))
    /\ [][(node \in {"load_memories", "agent"})
           => (index' = index /\ Upserts(io') = Upserts(io))]_vars
    /\ [][(node = "tools")
           => (LET n == WritingCalls(Last(messages).tool_calls)
               IN /\ Upserts(io') - Upserts(io) <= n
                  /\ Cardinality(Written(index, index')) <= Upserts(io') - Upserts(io)
                  /\ DOMAIN index \subseteq DOMAIN index')]_vars

\* a turn on the seeded index that ended with its first answer
C15_Witness ==
    /\ node = END
    /\ steps = 1
    /\ index = SeededIndex
    /\ Upserts(io) = 0
    /\ Len(io) = 4
    /\ Len(messages) = 4
    /\ ~HasToolCalls(Last(messages))

\* a turn that ran both writing tools in one round: two upserts, two records
C15_WitnessWrites ==
    /\ node = END
    /\ Upserts(io) = 2
    /\ WritingResults = 2
    /\ Cardinality(Written(SeededIndex, index)) = 2

-----------------------------------------------------------------------------
(* Properties of the graph (GraphSpec): order of the nodes, state keys *)

\* C16: a turn starts in load_memories, which runs once; after it come agent,
\* then any number of rounds tools, agent, then END.  tools is entered only
\* from agent and is always followed by agent, END is entered only from
\* agent, and nothing runs after END (or after a node has raised).
C16_NodeOrder ==
    /\ node = "load_memories"
    /\ [][/\ node = "load_memories" => node' \in {"agent", "failed"}
          /\ node = "agent" => node' \in {"tools", END, "failed"}
          /\ node = "tools" => node' = "agent"
          /\ node \notin {END, "failed"}
          /\ node' # "load_memories"
          /\ node' = "tools" => node = "agent"
          /\ node' = END => node = "agent"
          /\ node' = "agent" => node \in {"load_memories", "tools"}]_vars
    /\ [](node \in {"agent", "tools", END} => Len(io) >= 3)
    /\ [](node = "tools" => (steps >= 1 /\ HasToolCalls(Last(messages))))
    /\ [](node = "agent" /\ steps >= 1 => Last(messages).type = "tool")

\* a turn at END after load_memories, agent, tools, agent
C16_Witness ==
    /\ node = END
    /\ steps = 2
    /\ Len(messages) = 7
    /\ messages[4].type = "ai" /\ Len(messages[4].tool_calls) = 2
    /\ messages[5].type = "tool" /\ messages[6].type = "tool"
    /\ messages[7].type = "ai"
    /\ io[1].op = "fetch"

\* C18: load_memories writes core_memories and recall_memories, from the
\* index as it is then, and leaves messages as they were; agent and tools
\* leave core_memories and recall_memories as they were, so both keep the
\* values loaded at the start of the turn even after a tool of the turn has
\* changed the index.
C18_SlotsLoadedOnce ==
    /\ [][(node = "load_memories")
           => (/\ messages' = messages
               /\ node' = "agent" =>
                    /\ core_memories' = fetch_core_memories(index, ConfigUser(config)).memories
                    /\ \E r \in search_memory(index, config,
                                              TruncateTokens(get_buffer_string(messages)),
                                              DefaultTopK) :
                          recall_memories' = r.ret)]_vars
    /\ [][(node \in {"agent", "tools"})
           => (core_memories' = core_memories /\ recall_memories' = recall_memories)]_vars
    /\ [](node = "load_memories" => (core_memories = <<>> /\ recall_memories = <<>>))

\* a turn at END whose tools stored a core memory and saved a recall memory:
\* the slots still hold what was loaded before
C18_Witness ==
    /\ node = END
    /\ ~ConfigKeyError(config)
    /\ core_memories = <<<<"a">>>>
    /\ recall_memories = <<<<QUOTE>>, json_dumps(<<<<"a">>>>)>>
    /\ CoreList(ConfigUser(config)) = <<<<QUOTE>>, <<"a">>>>
    /\ Cardinality(RecallEntries(index, ConfigUser(config), <<QUOTE>>)) = 2

-----------------------------------------------------------------------------
(* The memory tools under every argument their schemas admit (ArgSpec):    *)
(* the memory text may be empty, top_k may be zero or negative, and the     *)
(* config may lack user_id.  One user, calls one after another.             *)

MemoryArgs == Texts \cup {<<>>}
TopKArgs == TopKs \cup {0, -1}
ArgConfigs == {CfgOf("u1"), [configurable |-> [thread_id |-> "t1"]]}

ArgSave ==
    /\ node = "idle" /\ last = NoLast
    /\ events < MaxRecall
    /\ \E cfg \in ArgConfigs, memory \in MemoryArgs :
         LET r == save_recall_memory(index, cfg, memory, NextEventId)
         IN /\ index' = r.index
            /\ events' = IF r.raised THEN events ELSE NextEventId
            /\ last' = [NoLast EXCEPT !.op = "save_recall_memory",
                                      !.user_id = ConfigUser(cfg),
                                      !.memory = memory,
                                      !.raised = r.raised,
                                      !.ret = r.ret,
                                      !.ids = r.ids]
            /\ io' = r.io
    /\ UNCHANGED <<callerVars, graphVars>>

ArgSearch ==
    /\ node = "idle" /\ last = NoLast
    /\ \E cfg \in ArgConfigs, query \in Queries, top_k \in TopKArgs :
         \E r \in search_memory(index, cfg, query, top_k) :
            /\ last' = [NoLast EXCEPT !.op = "search_memory",
                                      !.user_id = ConfigUser(cfg),
                                      !.query = query,
                                      !.top_k = top_k,
                                      !.raised = r.raised,
                                      !.ret = r.ret,
                                      !.ids = [j \in DOMAIN r.response.matches |->
                                                 r.response.matches[j].id]]
            /\ io' = r.io
    /\ UNCHANGED <<index, events, callerVars, graphVars>>

ArgStore ==
    /\ node = "idle" /\ last = NoLast
    /\ \E cfg \in ArgConfigs, memory \in MemoryArgs, i \in Indexes :
         LET read == IF ConfigKeyError(cfg) THEN <<>>
                     ELSE fetch_core_memories(index, ConfigUser(cfg)).memories
             r == store_core_memory(index, cfg, memory, i)
         IN /\ i = None => Len(read) < MaxCore
            /\ index' = r.index
            /\ last' = [NoLast EXCEPT !.op = "store_core_memory",
                                      !.user_id = ConfigUser(cfg),
                                      !.memory = memory,
                                      !.i = i,
                                      !.raised = r.raised,
                                      !.ret = r.ret,
                                      !.memories = read]
            /\ io' = r.io
    /\ UNCHANGED <<events, callerVars, graphVars>>

ArgNext ==
    \/ ArgSave
    \/ ArgSearch
    \/ ArgStore
    \/ Return

ArgSpec == Init /\ [][ArgNext]_vars

-----------------------------------------------------------------------------
(* Every entry point (EntrySpec): a memory tool called directly, as in     *)
(* ArgSpec, or a turn of the graph, as in GraphSpec.                        *)

EntryInit == Init \/ GraphInit

EntryNext ==
    \/ ArgSave
    \/ ArgSearch
    \/ ArgStore
    \/ Return
    \/ load_memories
    \/ agent
    \/ tools

EntrySpec == EntryInit /\ [][EntryNext]_vars

MemoryTools == {"save_recall_memory", "search_memory", "store_core_memory"}

\* C13: a turn whose config has no user_id fails in load_memories, its first
\* node, before any call to the embedding provider, the index or the chat
\* model, and leaves the index as it was; a memory tool called with such a
\* config raises before any call as well.
C13_NoUserNoIO ==
    /\ []((node # "idle" /\ ConfigKeyError(config))
           => (/\ node \in {"load_memories", "failed"}
               /\ io = <<>>
               /\ steps = 0
               /\ index \in {EmptyIndex, SeededIndex}))
    /\ [][(node = "load_memories" /\ ConfigKeyError(config))
           => (node' = "failed" /\ io' = <<>> /\ index' = index
               /\ messages' = messages)]_vars
    /\ [][(/\ last = NoLast
           /\ last'.op \in MemoryTools
           /\ last'.user_id = "")
           => (last'.raised /\ io' = <<>> /\ index' = index /\ events' = events)]_vars

\* a failed turn on an index that holds records
C13_Witness ==
    /\ node = "failed"
    /\ ConfigKeyError(config)
    /\ steps = 0
    /\ io = <<>>
    /\ index = SeededIndex
    /\ Len(messages) = 3

\* a tool that raised for the missing user_id on an index that holds records
C13_WitnessTool ==
    /\ last.op = "store_core_memory" /\ last.user_id = "" /\ last.raised
    /\ io = <<>>
    /\ DOMAIN index # {}

(* Properties of the memory tools under every argument (ArgSpec) *)

Issued(op) == \E k \in DOMAIN io : io[k].op = op

\* C14: the memory tools check their arguments before they act: a
\* search_memory with top_k <= 0 and a save_recall_memory or
\* store_core_memory with an empty memory text end with an error and issue no
\* query and no upsert.
C14_ArgumentsValidated ==
    /\ (last.op = "search_memory" /\ last.user_id # "" /\ last.top_k <= 0)
          => (last.raised /\ ~Issued("query"))
    /\ (last.op = "save_recall_memory" /\ last.user_id # "" /\ last.memory = <<>>)
          => (last.raised /\ ~Issued("upsert"))
    /\ (last.op = "store_core_memory" /\ last.user_id # "" /\ last.memory = <<>>)
          => ((last.raised \/ last.ret # "Memory stored.") /\ ~Issued("upsert"))

-----------------------------------------------------------------------------
(* Properties of the graph with misbehaving services (FaultSpec) *)

\* the calls of the step that did not return
FailedCalls(before, after) ==
    {j \in Len(before) + 1 .. Len(after) : ~after[j].ok}

ErrorMessages(msgs) ==
    {j \in DOMAIN msgs : /\ msgs[j].type = "tool"
                          /\ Len(msgs[j].content) = 2
                          /\ msgs[j].content[1] = "Error:"}

\* C12: a tools step in which a call fails (a required argument is missing,
\* or a backend call of the tool does not return) does not end the turn: the
\* step appends one ToolMessage per requested call, in order and under the
\* id of its call, the message of a failed call carries the error, and the
\* next node is agent.
C12_ToolFailureIsAnswered ==
    [][node = "tools" =>
         LET calls == Last(messages).tool_calls
             n == Len(messages)
         IN /\ node' = "agent"
            /\ Len(messages') = n + Len(calls)
            /\ SubSeq(messages', 1, n) = messages
            /\ \A j \in DOMAIN calls :
                  /\ messages'[n + j].type = "tool"
                  /\ messages'[n + j].tool_call_id = calls[j].id
                  /\ messages'[n + j].name = calls[j].name
                  /\ ~(RequiredArgs(calls[j].name) \subseteq DOMAIN calls[j].args)
                       => messages'[n + j].content = ToolError("ValidationError")
            /\ \A k \in FailedCalls(io, io') :
                  \E j \in DOMAIN calls : messages'[n + j].content = ToolError(io'[k].op)
            /\ Cardinality(FailedCalls(io, io'))
                 <= Cardinality(ErrorMessages(messages')) - Cardinality(ErrorMessages(messages))
       ]_vars

\* a turn at END after a round in which the upsert of save_recall_memory
\* failed: the error is in the history and the index is as it was
C12_Witness ==
    /\ node = END
    /\ "backend" \in faults
    /\ \E j \in ErrorMessages(messages) :
          /\ messages[j].name = "save_recall_memory"
          /\ messages[j].content = ToolError("upsert")
          /\ messages[j - 1].type = "ai"
          /\ j + 1 = Len(messages)
    /\ \E k \in DOMAIN io : io[k].op = "upsert" /\ ~io[k].ok
    /\ index = SeededIndex
    /\ bot_message.type = "ai" /\ bot_message.tool_calls = <<>>

\* a round whose call left out the required argument
C12_WitnessArgs ==
    /\ node = "agent"
    /\ Last(messages).type = "tool"
    /\ Last(messages).content = ToolError("ValidationError")

IsPrefix(s, t) == Len(s) <= Len(t) /\ SubSeq(t, 1, Len(s)) = s

Changed(before, after) == {j \in DOMAIN before : after[j] # before[j]}

-----------------------------------------------------------------------------
(* Properties of load_memories on a long conversation (TruncSpec) *)

\* the text load_memories gave to search_memory
RecallQuery == io[2].arg

\* C19: the query of the recall search is the tail of the conversation
\* buffer: for a buffer of T tokens it is the last min(T, TokenLimit) tokens,
\* and it never has more than TokenLimit tokens.
C19_QueryIsRecentTail ==
    (node = "agent" /\ Len(io) = 3 /\ io[2].op = "embed_query") =>
        LET buffer == get_buffer_string(messages)
            T == Len(buffer)
            n == Min(T, TokenLimit)
        IN /\ Len(RecallQuery) = n
           /\ Len(RecallQuery) <= TokenLimit
           /\ RecallQuery = SubSeq(buffer, T - n + 1, T)

-----------------------------------------------------------------------------
(* Properties of load_memories step by step (LoadSpec) *)

Submitted(f) == f.state # "none"

\* what load_memories run without interruption may put in the two slots
LoadResults ==
    {<<fetch_core_memories(index, ConfigUser(config)).memories, r.ret>>
     : r \in search_memory(index, config, TruncateTokens(get_buffer_string(messages)),
                           DefaultTopK)}

\* C20: load_memories submits the core fetch and the recall search before it
\* waits for a result; each of the two can end while the other is still
\* running; core_memories and recall_memories are written, and agent starts,
\* only when both have ended; and the slots then hold the result of the
\* fetch and the result of the search, the same in either order of ending.
C20_FanOutFanIn ==
    /\ [][(futures'.pc \in {"core_taken", "joined"} /\ futures'.pc # futures.pc)
           => (Submitted(futures.core) /\ Submitted(futures.recall))]_vars
    /\ [](futures.core.state = "running" => ENABLED CoreFetchDone)
    /\ [](futures.recall.state = "running" => ENABLED RecallSearchDone)
    /\ [][(\/ core_memories' # core_memories
           \/ recall_memories' # recall_memories
           \/ node' = "agent" /\ node # "agent")
           => (/\ futures.core.state = "done" /\ futures.recall.state = "done"
               /\ core_memories' = futures.core.result
               /\ recall_memories' = futures.recall.result
               /\ node' = "agent")]_vars
    /\ []((node = "load_memories" /\ ~ConfigKeyError(config))
           => (core_memories = <<>> /\ recall_memories = <<>> /\ steps = 0))
    /\ []((node = "agent" /\ steps = 0)
           => (/\ <<core_memories, recall_memories>> \in LoadResults
               /\ Len(futures.done) = 2))

\* the search ended first, the fetch second, and both slots are loaded
C20_Witness ==
    /\ node = "agent"
    /\ steps = 0
    /\ futures.done = <<"recall", "core">>
    /\ core_memories = <<<<"a">>>>
    /\ Len(recall_memories) = 2
    /\ io[3].op = "fetch"

\* the fetch has ended and the search is still running
C20_WitnessCoreFirst ==
    /\ futures.core.state = "done"
    /\ futures.recall.state = "running"
    /\ node = "load_memories"

-----------------------------------------------------------------------------
(* Failures of load_memories and agent (FaultSpec) *)

\* the backend calls of load_memories: the first calls of the turn
LoadCalls == SubSeq(io, 1, Min(Len(io), 3))

LoadFailed == \E k \in DOMAIN LoadCalls : ~LoadCalls[k].ok

ProviderFailed == \E k \in DOMAIN io : io[k].op = "chat_model" /\ ~io[k].ok

\* C21: when the core fetch or the recall search of load_memories fails, or
\* the chat model call of agent fails, the step ends the run in failure:
\* it appends no message and writes no memory slot, nothing runs after it
\* (the turn does not get to END), and every chat model call is made after a
\* load in which the fetch, the embedding and the query all returned.
C21_InfrastructureFailureFailsTurn ==
    /\ []((LoadFailed \/ ProviderFailed) => node = "failed")
    /\ [][node # "failed"]_vars
    /\ [][(node \in {"load_memories", "agent"} /\ FailedCalls(io, io') # {})
            => (/\ node' = "failed"
                /\ messages' = messages
                /\ core_memories' = core_memories
                /\ recall_memories' = recall_memories
                /\ index' = index)]_vars
    /\ []((\E k \in DOMAIN io : io[k].op = "chat_model")
            => (/\ Len(io) > 3
                /\ <<io[1].op, io[2].op, io[3].op>> = <<"fetch", "embed_query", "query">>
                /\ ~LoadFailed))
    /\ []((node = "agent" /\ steps = 0)
            => core_memories = fetch_core_memories(index, ConfigUser(config)).memories)

\* the core fetch failed while the recall search returned: the run failed
\* before any agent step, with the input messages and empty slots
C21_Witness ==
    /\ node = "failed"
    /\ "backend" \in faults
    /\ Len(io) = 3
    /\ ~io[1].ok /\ io[2].ok /\ io[3].ok
    /\ steps = 0
    /\ Len(messages) = 3
    /\ core_memories = <<>> /\ recall_memories = <<>>

\* the recall search failed in its query while the core fetch returned
C21_WitnessRecall ==
    /\ node = "failed"
    /\ steps = 0
    /\ Len(io) = 3
    /\ io[1].ok /\ io[3].op = "query" /\ ~io[3].ok
    /\ core_memories = <<>>

\* the chat model failed in the second agent step, after a round of tools
C21_WitnessAgent ==
    /\ node = "failed"
    /\ steps = 2
    /\ ~LoadFailed
    /\ Last(io).op = "chat_model" /\ ~Last(io).ok
    /\ Last(messages).type = "tool"

-----------------------------------------------------------------------------
(* The agent/tools loop to its end (LoopSpec): the chat model either        *)
(* answers in plain text or asks for a web search, round after round.  The  *)
(* graph has no bound on the rounds; the run of memgraph has the step limit *)
(* of its config, recursion_limit, which no caller sets and so has the      *)
(* default of the library.                                                  *)

\* config["recursion_limit"] of a run of memgraph: the default
recursion_limit == 25

\* the steps of the run taken so far: load_memories, then agent and tools in
\* turn
Supersteps ==
    IF node = "load_memories" THEN 0
    ELSE IF node = "tools" THEN 2 * steps
    ELSE 2 * steps + 1

LoopAnswers ==
    {[content |-> <<"ok">>, requests |-> <<>>],
     [content |-> <<>>,
      requests |-> <<[name |-> "tavily_search_results_json",
                      args |-> [query |-> <<"a">>]]>>]}

LoopAgent ==
    /\ Supersteps < recursion_limit
    /\ AgentStep(LoopAnswers)

LoopTools ==
    /\ Supersteps < recursion_limit
    /\ tools

GraphRecursionError_ToEnd ==
    /\ node \in {"agent", "tools"}
    /\ Supersteps >= recursion_limit
    /\ node' = END
    /\ UNCHANGED <<index, events, last, callerVars, config, messages, core_memories,
                   recall_memories, steps, io, faults, futures,
                   server>>

\* the run has taken recursion_limit steps and a node is still to run: the
\* run ends with GraphRecursionError
GraphRecursionError ==
    /\ node \in {"agent", "tools"}
    /\ Supersteps >= recursion_limit
    /\ node' = "failed"
    /\ UNCHANGED <<index, events, last, callerVars, config, messages, core_memories,
                   recall_memories, steps, io, faults, futures,
                   server>>

LoopNext ==
    \/ load_memories
    \/ LoopAgent
    \/ LoopTools
    \/ GraphRecursionError

\* the runner runs the next node as long as there is one
LoopSpec == GraphInit /\ [][LoopNext]_vars /\ WF_vars(LoopNext)

\* the answers of the agent steps of the turn
TurnAnswers == {j \in DOMAIN messages : messages[j].type = "ai" /\ FromTurn(messages[j])}

\* the answer an agent step has just added
Answered == node = "agent" /\ Len(messages') = Len(messages) + 1

C22_WitnessEnd ==
    /\ node = END
    /\ steps = 12
    /\ Cardinality(TurnAnswers) = 12
    /\ ~HasToolCalls(Last(messages))

-----------------------------------------------------------------------------
(* event_server/main.py, _get_assistant_id (AssistantSpec): the on_message *)
(* handlers of the bot call it concurrently.  server._ASSISTANT_ID is the   *)
(* module global (None, or <<id>>), server._LOCK is None or the handler     *)
(* that holds the lock, server.pc[h] is the position of handler h in the    *)
(* function, server.ret[h] what it returned, and server.searches counts the *)
(* calls of assistants.search.  A handler may be interrupted between any    *)
(* two of its steps.                                                        *)

\* what assistants.search(graph_id) may answer: the assistants of the graph,
\* not the same list at every call
SearchResults == {<<>>, <<"a1">>, <<"a2", "a1">>}

\* os.environ.get("ASSISTANT_ID")
StartupIds == {None, Some("a0")}

\* if _ASSISTANT_ID is None: (the check outside the lock)
GetCheck(h) ==
    /\ server.pc[h] = "idle"
    /\ server' = [server EXCEPT
                    !.pc[h] = IF server._ASSISTANT_ID = None THEN "acquire" ELSE "return"]

\* async with _LOCK: the handler gets the lock when no one holds it
GetAcquire(h) ==
    /\ server.pc[h] = "acquire"
    /\ server._LOCK = None
    /\ server' = [server EXCEPT !._LOCK = Some(h), !.pc[h] = "locked"]

GetRecheck_NoRecheck(h) ==
    /\ server.pc[h] = "locked"
    /\ server' = [server EXCEPT !.pc[h] = "searching", !.searches = @ + 1]

\* if _ASSISTANT_ID is None: (the check under the lock); the search is
\* issued, or the lock is left
GetRecheck(h) ==
    /\ server.pc[h] = "locked"
    /\ IF server._ASSISTANT_ID = None
       THEN server' = [server EXCEPT !.pc[h] = "searching", !.searches = @ + 1]
       ELSE server' = [server EXCEPT !._LOCK = None, !.pc[h] = "return"]

\* await _LANGGRAPH_CLIENT.assistants.search(...) returns: ValueError when
\* there is no assistant, else the first one is stored; the lock is left
GetSearchDone(h) ==
    /\ server.pc[h] = "searching"
    /\ \E assistants \in SearchResults :
          IF assistants = <<>>
          THEN server' = [server EXCEPT !._LOCK = None, !.pc[h] = "raised"]
          ELSE server' = [server EXCEPT !._ASSISTANT_ID = Some(assistants[1]),
                                        !._LOCK = None, !.pc[h] = "return"]

\* the search raises (the service is not reached): the lock is left
GetSearchFails(h) ==
    /\ server.pc[h] = "searching"
    /\ server' = [server EXCEPT !._LOCK = None, !.pc[h] = "raised"]

\* return _ASSISTANT_ID
GetReturn(h) ==
    /\ server.pc[h] = "return"
    /\ server' = [server EXCEPT !.ret[h] = server._ASSISTANT_ID, !.pc[h] = "done"]

AssistantInit ==
    /\ index = EmptyIndex
    /\ events = 0
    /\ last = NoLast
    /\ pc = [c \in Callers |-> "idle"]
    /\ call = [c \in Callers |-> NoCall]
    /\ node = "idle"
    /\ config = CfgOf("u1")
    /\ messages = <<>>
    /\ core_memories = <<>>
    /\ recall_memories = <<>>
    /\ steps = 0
    /\ io = <<>>
    /\ faults = {}
    /\ futures = NoFutures
    /\ \E id \in StartupIds : server = [NoServer EXCEPT !._ASSISTANT_ID = id]

AssistantNext ==
    /\ \E h \in Handlers :
          \/ GetCheck(h)
          \/ GetAcquire(h)
          \/ GetRecheck(h)
          \/ GetSearchDone(h)
          \/ GetSearchFails(h)
          \/ GetReturn(h)
    /\ UNCHANGED <<index, events, last, callerVars, node, config, messages,
                   core_memories, recall_memories, steps, io, faults, futures>>

AssistantSpec == AssistantInit /\ [][AssistantNext]_vars

Searching == {h \in Handlers : server.pc[h] = "searching"}

\* C23: under every interleaving of the handlers that call
\* _get_assistant_id, at most one assistants.search is in flight, and only
\* under the lock; a search is issued only while _ASSISTANT_ID is None, so
\* none is issued once the id is set and none at all when the id was
\* configured at start-up; _ASSISTANT_ID, once not None, never changes, so it
\* is set at most once; and every handler that returns has that id.
C23_AssistantIdSetOnce ==
    /\ [](Cardinality(Searching) <= 1)
    /\ [](\A h \in Searching : server._LOCK = Some(h) /\ server._ASSISTANT_ID = None)
    /\ [][/\ server.searches' > server.searches => server._ASSISTANT_ID = None
          /\ server._ASSISTANT_ID # None => server._ASSISTANT_ID' = server._ASSISTANT_ID
          /\ server._ASSISTANT_ID' # server._ASSISTANT_ID
               => \E h \in Handlers : server._LOCK = Some(h) /\ server.pc[h] = "searching"
         ]_vars
    /\ [](\A h \in Handlers :
             /\ server.pc[h] = "done" => server.ret[h] # None
             /\ server.ret[h] # None => server.ret[h] = server._ASSISTANT_ID)
    /\ [](\A h \in Handlers : server.pc[h] = "return" => server._ASSISTANT_ID # None)
    /\ [](server._ASSISTANT_ID = Some("a0") => server.searches = 0)

\* three handlers found the id missing at the same time; one searched and
\* stored a1, the other two got the lock after it and searched no more
C23_Witness ==
    /\ \A h \in Handlers : server.pc[h] = "done" /\ server.ret[h] = Some("a1")
    /\ server.searches = 1
    /\ server._LOCK = None

\* a search found no assistant and the next handler searched again
C23_WitnessRetry ==
    /\ server.searches = 2
    /\ \E h \in Handlers : server.pc[h] = "raised"
    /\ \E h \in Handlers : server.pc[h] = "done" /\ server.ret[h] = Some("a2")

-----------------------------------------------------------------------------
(* The client of the vector backend (GraphSpec).  Every operation on the    *)
(* index is written utils.get_index().<operation>(...), and get_index()     *)
(* builds a Pinecone client and its Index at every call: it is not cached   *)
(* (get_embeddings is, by lru_cache).                                       *)

IndexOps == {"fetch", "upsert", "query"}

\* the index operations among the first k calls of a log
IndexCalls(calls, k) == {j \in 1 .. k : calls[j].op \in IndexOps}

\* the clients get_index() has constructed for the calls of a log: one per
\* index operation
ClientConstructions(calls) == Cardinality(IndexCalls(calls, Len(calls)))

\* the client the k-th call of a log was made on: the one constructed for it
ClientOf(calls, k) == Cardinality(IndexCalls(calls, k))

\* C24: the client of the vector backend is constructed at most once: after
\* the fetch_core_memories, search_memory, save_recall_memory and
\* store_core_memory calls of a turn at most one client has been
\* constructed, and all index operations were made on that client.
C24_ClientConstructedOnce ==
    /\ ClientConstructions(io) <= 1
    /\ \A j, k \in IndexCalls(io, Len(io)) : ClientOf(io, j) = ClientOf(io, k)

=============================================================================
